---- MODULE Spec2Model ----
(***************************************************************************)
(* The build pass of HulinkInfraStack (lib/hulink-infra-stack.ts): the     *)
(* constructor runs its statements once, top to bottom, and each statement *)
(* looks a resource up, declares one, or changes one declared earlier.     *)
(* The state is the construct tree built so far, the constructor's local   *)
(* constants, the security-group rules, the scaling target and the health  *)
(* check.  The environment (process.env) is the input.                     *)
(*                                                                         *)
(* What the aws-cdk-lib constructs do inside themselves is not part of the *)
(* repository.  A construct is modelled by the arguments the constructor   *)
(* passes to it.  Where the constructor hands `undefined` to a library     *)
(* lookup, the library may throw or may go on: both outcomes are kept.     *)
(***************************************************************************)
EXTENDS Integers, Sequences, FiniteSets, TLC

VARIABLES env, pc, tree, local, domainName, fullDomainName, ingress,
          scaling, healthCheck, history

vars == <<env, pc, tree, local, domainName, fullDomainName, ingress,
          scaling, healthCheck, history>>

\* Number of distinct names each environment variable may hold.
NumNames == 2

----------------------------------------------------------------------------
\* JavaScript values read from process.env.

JsUndefined == [type |-> "undefined"]

JsString(s) == [type |-> "string", s |-> s]

\* A local constant whose declaration has not run yet.
JsUnset == [type |-> "unset"]

EnvNames == {"ECR_REPOSITORY_NAME", "DATABASE_USERNAME", "SECRET_NAME", "DOMAIN_NAME"}

EnvValues == {JsUndefined} \cup {JsString("v" \o ToString(i)) : i \in 1..NumNames}

TemplateLiteral_Www(x) == JsString("www." \o (IF x.type = "string" THEN x.s ELSE x.type))

\* `${x}`: a string stays itself, undefined becomes the text "undefined".
TemplateLiteral(x) == IF x.type = "string" THEN x ELSE JsString(x.type)

\* JSON.stringify({username: x}): a property whose value is undefined is left out.
JSONStringifyUsername(x) ==
    IF x.type = "undefined" THEN "{}" ELSE "{\"username\":\"" \o x.s \o "\"}"

----------------------------------------------------------------------------
\* Property values of a declaration.

Text(s) == [kind |-> "text", s |-> s]

Num(n) == [kind |-> "num", n |-> n]

Bool(b) == [kind |-> "bool", b |-> b]

Map(entries) == [kind |-> "map", entries |-> entries]

\* database.dbInstanceEndpointAddress and the like: an attribute of a declared resource.
Attr(id, name) == [kind |-> "attr", of |-> id, attr |-> name]

\* secret.secretValueFromJson(key).unsafeUnwrap(): the secret's value as a literal.
UnsafeUnwrap(secretId, key) == [kind |-> "unsafeUnwrap", secret |-> secretId, key |-> key]

\* cdk.SecretValue.unsafePlainText(`...`): a literal made of the template's parts.
UnsafePlainText(parts) == [kind |-> "unsafePlainText", parts |-> parts]

\* ecs.Secret.fromSecretsManager(secret, field): a reference to a secret-store entry.
FromSecretsManager(secretId, field) == [kind |-> "secretRef", secret |-> secretId, field |-> field]

\* A JavaScript value passed as a property.
FromJs(x) == IF x.type = "string" THEN Text(x.s) ELSE [kind |-> x.type]

\* A local constant that has no value yet.
Unset == "<unset>"

NoRefs == <<>>

NoProps == <<>>

\* A construct of the tree: declared (new X(this, id, props)) or imported (X.fromY(this, id, ...)).
\* refs are the constructs its arguments name, at is the number of statements run before it.
Node(kind, type, refs, props, attrs, at) ==
    [kind |-> kind, type |-> type, refs |-> refs, props |-> props, attrs |-> attrs, at |-> at]

----------------------------------------------------------------------------
\* The statements of the constructor, in source order.

StatementOrder_SecretBeforeDatabase ==
    << "repository", "vpc", "ECREndpoint", "ECRDockerEndpoint", "SecretsManagerEndpoint",
       "cluster", "dbSecurityGroup", "appSecurityGroup", "addIngressRule", "dbCredentials",
       "googleCredentials", "databaseUrlSecret", "database", "domainName", "hostedZone",
       "certificate", "backendApp", "scaling", "configureHealthCheck", "scaleOnCpuUtilization" >>

StatementOrder_NoCluster ==
    << "repository", "vpc", "ECREndpoint", "ECRDockerEndpoint", "SecretsManagerEndpoint",
       "dbSecurityGroup", "appSecurityGroup", "addIngressRule", "dbCredentials",
       "database", "googleCredentials", "databaseUrlSecret", "domainName", "hostedZone",
       "certificate", "backendApp", "scaling", "configureHealthCheck", "scaleOnCpuUtilization" >>

StatementOrder_ServiceBeforeCertificate ==
    << "repository", "vpc", "ECREndpoint", "ECRDockerEndpoint", "SecretsManagerEndpoint",
       "cluster", "dbSecurityGroup", "appSecurityGroup", "addIngressRule", "dbCredentials",
       "database", "googleCredentials", "databaseUrlSecret", "domainName", "hostedZone",
       "backendApp", "certificate", "scaling", "configureHealthCheck", "scaleOnCpuUtilization" >>

StatementOrder_HealthCheckLast ==
    << "repository", "vpc", "ECREndpoint", "ECRDockerEndpoint", "SecretsManagerEndpoint",
       "cluster", "dbSecurityGroup", "appSecurityGroup", "addIngressRule", "dbCredentials",
       "database", "googleCredentials", "databaseUrlSecret", "domainName", "hostedZone",
       "certificate", "backendApp", "scaling", "scaleOnCpuUtilization", "configureHealthCheck" >>

StatementOrder ==
    << "repository", "vpc", "ECREndpoint", "ECRDockerEndpoint", "SecretsManagerEndpoint",
       "cluster", "dbSecurityGroup", "appSecurityGroup", "addIngressRule", "dbCredentials",
       "database", "googleCredentials", "databaseUrlSecret", "domainName", "hostedZone",
       "certificate", "backendApp", "scaling", "configureHealthCheck", "scaleOnCpuUtilization" >>

Done == "done"

Aborted == "aborted"

\* The statement that runs at position i, or Done after the last one.
StatementAt(i) == IF i <= Len(StatementOrder) THEN StatementOrder[i] ELSE Done

LocalNames == {"repository", "vpc", "cluster", "dbSecurityGroup", "appSecurityGroup",
               "dbCredentials", "database", "googleCredentials", "databaseUrlSecret",
               "hostedZone", "certificate", "backendApp", "scaling"}

Init ==
    /\ env \in [EnvNames -> EnvValues]
    /\ pc = StatementAt(1)
    /\ tree = <<>>
    /\ local = [n \in LocalNames |-> Unset]
    /\ domainName = JsUnset
    /\ fullDomainName = JsUnset
    /\ ingress = {}
    /\ scaling = {}
    /\ healthCheck = {}
    /\ history = <<>>

\* Statement `label` runs and control passes to the statement after it.
Run(label) ==
    /\ pc = label
    /\ history' = Append(history, label)
    /\ pc' = StatementAt(Len(history) + 2)

\* The statement throws: the constructor is left and nothing else changes.
Throw(label) ==
    /\ pc = label
    /\ pc' = Aborted
    /\ UNCHANGED <<env, tree, local, domainName, fullDomainName, ingress,
                   scaling, healthCheck, history>>

\* new X(this, id, ...) or X.fromY(this, id, ...): the construct joins the tree.
AddConstruct(id, node) == tree' = (id :> node) @@ tree

Bind(name, id) == local' = [local EXCEPT ![name] = id]

----------------------------------------------------------------------------
\* Program constants.

MaxAzs == 2

NatGateways == 1

PostgresPort == 5432

ServiceCpu == 256

DesiredCount == 3

ContainerPort == 80

MemoryLimitMiB == 1024

HealthCheckGracePeriod == 60

MinCapacity == 2

MaxCapacity == 5

HealthyThresholdCount == 2

UnhealthyThresholdCount == 3

HealthCheckInterval == 30

TargetUtilizationPercent == 70

ScaleInCooldown == 60

ScaleOutCooldown == 60

----------------------------------------------------------------------------
\* The arguments of each declaration.

RepositoryProps(name) == [repositoryName |-> FromJs(name)]

VpcProps == [maxAzs |-> Num(MaxAzs), natGateways |-> Num(NatGateways)]

EndpointProps(service) == [service |-> Text(service)]

SecurityGroupProps == [allowAllOutbound |-> Bool(TRUE)]

\* dbSecurityGroup.addIngressRule(appSecurityGroup, ec2.Port.tcp(5432), description)
IngressRule_AnyIpv4(group, peer) ==
    [group |-> group, peer |-> "0.0.0.0/0", protocol |-> "tcp", port |-> PostgresPort,
     description |-> "Allow PostgreSQL access from Fargate"]

IngressRule(group, peer) ==
    [group |-> group, peer |-> peer, protocol |-> "tcp", port |-> PostgresPort,
     description |-> "Allow PostgreSQL access from Fargate"]

DbCredentialsProps(username) ==
    [generateSecretString |->
        Map([secretStringTemplate |-> Text(JSONStringifyUsername(username)),
             generateStringKey |-> Text("password"),
             excludePunctuation |-> Bool(TRUE)])]

DatabaseProps ==
    [databaseName |-> Text("hulink"),
     engine |-> Text("postgres-13"),
     instanceType |-> Text("t3.micro"),
     vpcSubnets |-> Text("PRIVATE_WITH_EGRESS")]

DatabaseAttrs == {"dbInstanceEndpointAddress", "dbInstanceEndpointPort"}

\* database.secret: the secret of the credentials the database was declared with.
DatabaseSecret(db) ==
    IF db \in DOMAIN tree /\ "credentials" \in DOMAIN tree[db].refs
    THEN tree[db].refs.credentials
    ELSE Unset

\* The template literal of the connection string, part by part.
DatabaseUrl(db) ==
    << Text("postgresql://"), UnsafeUnwrap(DatabaseSecret(db), "username"), Text(":"),
       UnsafeUnwrap(DatabaseSecret(db), "password"), Text("@"),
       Attr(db, "dbInstanceEndpointAddress"), Text(":"),
       Attr(db, "dbInstanceEndpointPort"), Text("/hulink?schema=public") >>

DatabaseUrlSecretProps(db) ==
    [secretObjectValue |-> Map([url |-> UnsafePlainText(DatabaseUrl(db))])]

GoogleCredentialsProps(name) == [secretName |-> FromJs(name)]

HostedZoneProps(domain) == [domainName |-> FromJs(domain)]

CertificateProps(domain) ==
    [domainName |-> FromJs(domain), validation |-> Text("DNS")]

ServiceEnvironment_WithDatabaseUrl ==
    [APP_ENV |-> Text("production"),
     APP_PORT |-> Text("80"),
     LOG_PRETTY_PRINT |-> Text("false"),
     LOG_LEVEL |-> Text("info"),
     AUTH_ENABLED |-> Text("true"),
     GOOGLE_APPLICATION_CREDENTIALS |-> Text("/app/service-account.json"),
     DATABASE_URL |-> UnsafePlainText(DatabaseUrl(local.database))]

ServiceEnvironment ==
    [APP_ENV |-> Text("production"),
     APP_PORT |-> Text("80"),
     LOG_PRETTY_PRINT |-> Text("false"),
     LOG_LEVEL |-> Text("info"),
     AUTH_ENABLED |-> Text("true"),
     GOOGLE_APPLICATION_CREDENTIALS |-> Text("/app/service-account.json")]

ServiceSecrets(databaseUrlSecret, googleCredentials) ==
    [DATABASE_URL |-> FromSecretsManager(databaseUrlSecret, "url"),
     GOOGLE_APPLICATION_CREDENTIALS_CONTENT |-> FromSecretsManager(googleCredentials, "")]

ServiceProps(domain, databaseUrlSecret, googleCredentials) ==
    [cpu |-> Num(ServiceCpu),
     desiredCount |-> Num(DesiredCount),
     containerPort |-> Num(ContainerPort),
     logDriver |-> Text("hulink-app"),
     environment |-> Map(ServiceEnvironment),
     secrets |-> Map(ServiceSecrets(databaseUrlSecret, googleCredentials)),
     memoryLimitMiB |-> Num(MemoryLimitMiB),
     publicLoadBalancer |-> Bool(TRUE),
     healthCheckGracePeriod |-> Num(HealthCheckGracePeriod),
     redirectHTTP |-> Bool(TRUE),
     domainName |-> FromJs(domain)]

ServiceRefs ==
    [cluster |-> local.cluster,
     image |-> local.repository,
     secretDatabaseUrl |-> local.databaseUrlSecret,
     secretGoogleCredentials |-> local.googleCredentials,
     securityGroups |-> local.appSecurityGroup,
     certificate |-> local.certificate,
     domainZone |-> local.hostedZone]

\* backendApp.service.autoScaleTaskCount({minCapacity, maxCapacity})
ScalableTarget(service) ==
    [id |-> service \o "/TaskCount", service |-> service,
     minCapacity |-> MinCapacity, maxCapacity |-> MaxCapacity, policies |-> {}]

\* scaling.scaleOnCpuUtilization('CpuScaling', {...})
CpuScalingPolicy_CooldownsSwappedWithTarget ==
    [id |-> "CpuScaling",
     targetUtilizationPercent |-> ScaleInCooldown,
     scaleInCooldown |-> TargetUtilizationPercent,
     scaleOutCooldown |-> ScaleOutCooldown]

CpuScalingPolicy ==
    [id |-> "CpuScaling",
     targetUtilizationPercent |-> TargetUtilizationPercent,
     scaleInCooldown |-> ScaleInCooldown,
     scaleOutCooldown |-> ScaleOutCooldown]

\* backendApp.targetGroup.configureHealthCheck({...})
HealthCheck_ThresholdsSwapped(service) ==
    [targetGroupOf |-> service,
     path |-> "/v1/health",
     healthyThresholdCount |-> UnhealthyThresholdCount,
     unhealthyThresholdCount |-> HealthyThresholdCount,
     interval |-> HealthCheckInterval]

HealthCheck(service) ==
    [targetGroupOf |-> service,
     path |-> "/v1/health",
     healthyThresholdCount |-> HealthyThresholdCount,
     unhealthyThresholdCount |-> UnhealthyThresholdCount,
     interval |-> HealthCheckInterval]

----------------------------------------------------------------------------
\* The statements.

\* const repository = ecr.Repository.fromRepositoryName(this, 'HulinkRepository', env!)
LookupRepository ==
    \/ /\ env["ECR_REPOSITORY_NAME"] = JsUndefined
       /\ Throw("repository")
    \/ /\ Run("repository")
       /\ AddConstruct("HulinkRepository",
             Node("imported", "Repository", NoRefs,
                  RepositoryProps(env["ECR_REPOSITORY_NAME"]), {}, Len(history)))
       /\ Bind("repository", "HulinkRepository")
       /\ UNCHANGED <<env, domainName, fullDomainName, ingress, scaling, healthCheck>>

\* const vpc = new ec2.Vpc(this, "HulinkVpc", {...})
NewVpc ==
    /\ Run("vpc")
    /\ AddConstruct("HulinkVpc",
          Node("declared", "Vpc", NoRefs, VpcProps, {}, Len(history)))
    /\ Bind("vpc", "HulinkVpc")
    /\ UNCHANGED <<env, domainName, fullDomainName, ingress, scaling, healthCheck>>

\* vpc.addInterfaceEndpoint(id, {service})
AddInterfaceEndpoint(id, service) ==
    /\ Run(id)
    /\ AddConstruct(id,
          Node("declared", "InterfaceVpcEndpoint", [vpc |-> local.vpc],
               EndpointProps(service), {}, Len(history)))
    /\ UNCHANGED <<env, local, domainName, fullDomainName, ingress, scaling, healthCheck>>

AddECREndpoint == AddInterfaceEndpoint("ECREndpoint", "ECR")

AddECRDockerEndpoint == AddInterfaceEndpoint("ECRDockerEndpoint", "ECR_DOCKER")

AddSecretsManagerEndpoint == AddInterfaceEndpoint("SecretsManagerEndpoint", "SECRETS_MANAGER")

\* const cluster = new ecs.Cluster(this, "HulinkCluster", {vpc})
NewCluster ==
    /\ Run("cluster")
    /\ AddConstruct("HulinkCluster",
          Node("declared", "Cluster", [vpc |-> local.vpc], NoProps, {}, Len(history)))
    /\ Bind("cluster", "HulinkCluster")
    /\ UNCHANGED <<env, domainName, fullDomainName, ingress, scaling, healthCheck>>

\* const <name> = new ec2.SecurityGroup(this, id, {vpc, allowAllOutbound: true})
NewSecurityGroup(name, id) ==
    /\ Run(name)
    /\ AddConstruct(id,
          Node("declared", "SecurityGroup", [vpc |-> local.vpc],
               SecurityGroupProps, {}, Len(history)))
    /\ Bind(name, id)
    /\ UNCHANGED <<env, domainName, fullDomainName, ingress, scaling, healthCheck>>

NewDbSecurityGroup == NewSecurityGroup("dbSecurityGroup", "DBSecurityGroup")

NewAppSecurityGroup == NewSecurityGroup("appSecurityGroup", "AppSecurityGroup")

\* dbSecurityGroup.addIngressRule(appSecurityGroup, ec2.Port.tcp(5432), '...')
AddIngressRule ==
    /\ Run("addIngressRule")
    /\ ingress' = ingress \cup {IngressRule(local.dbSecurityGroup, local.appSecurityGroup)}
    /\ UNCHANGED <<env, tree, local, domainName, fullDomainName, scaling, healthCheck>>

\* const dbCredentials = new secretsmanager.Secret(this, 'DBCredentials', {...})
NewDbCredentials ==
    /\ Run("dbCredentials")
    /\ AddConstruct("DBCredentials",
          Node("declared", "Secret", NoRefs,
               DbCredentialsProps(env["DATABASE_USERNAME"]), {}, Len(history)))
    /\ Bind("dbCredentials", "DBCredentials")
    /\ UNCHANGED <<env, domainName, fullDomainName, ingress, scaling, healthCheck>>

\* const database = new rds.DatabaseInstance(this, 'Database', {...})
NewDatabase ==
    /\ Run("database")
    /\ AddConstruct("Database",
          Node("declared", "DatabaseInstance",
               [credentials |-> local.dbCredentials, vpc |-> local.vpc,
                securityGroups |-> local.dbSecurityGroup],
               DatabaseProps, DatabaseAttrs, Len(history)))
    /\ Bind("database", "Database")
    /\ UNCHANGED <<env, domainName, fullDomainName, ingress, scaling, healthCheck>>

\* const googleCredentials = secretsmanager.Secret.fromSecretNameV2(this, 'GoogleCredentials', env!)
LookupGoogleCredentials ==
    \/ /\ env["SECRET_NAME"] = JsUndefined
       /\ Throw("googleCredentials")
    \/ /\ Run("googleCredentials")
       /\ AddConstruct("GoogleCredentials",
             Node("imported", "Secret", NoRefs,
                  GoogleCredentialsProps(env["SECRET_NAME"]), {}, Len(history)))
       /\ Bind("googleCredentials", "GoogleCredentials")
       /\ UNCHANGED <<env, domainName, fullDomainName, ingress, scaling, healthCheck>>

\* const databaseUrlSecret = new secretsmanager.Secret(this, 'DatabaseUrlSecret', {...})
NewDatabaseUrlSecret ==
    /\ Run("databaseUrlSecret")
    /\ AddConstruct("DatabaseUrlSecret",
          Node("declared", "Secret",
               [database |-> local.database, credentials |-> DatabaseSecret(local.database)],
               DatabaseUrlSecretProps(local.database), {}, Len(history)))
    /\ Bind("databaseUrlSecret", "DatabaseUrlSecret")
    /\ UNCHANGED <<env, domainName, fullDomainName, ingress, scaling, healthCheck>>

\* const domainName = process.env['DOMAIN_NAME']!; const fullDomainName = `${domainName}`
ReadDomainName ==
    /\ Run("domainName")
    /\ domainName' = env["DOMAIN_NAME"]
    /\ fullDomainName' = TemplateLiteral(env["DOMAIN_NAME"])
    /\ UNCHANGED <<env, tree, local, ingress, scaling, healthCheck>>

\* const hostedZone = route53.HostedZone.fromLookup(this, 'HostedZone', {domainName})
LookupHostedZone ==
    \/ /\ domainName = JsUndefined
       /\ Throw("hostedZone")
    \/ /\ Run("hostedZone")
       /\ AddConstruct("HostedZone",
             Node("imported", "HostedZone", NoRefs,
                  HostedZoneProps(domainName), {}, Len(history)))
       /\ Bind("hostedZone", "HostedZone")
       /\ UNCHANGED <<env, domainName, fullDomainName, ingress, scaling, healthCheck>>

\* const certificate = new acm.Certificate(this, 'Certificate', {domainName, validation})
NewCertificate ==
    /\ Run("certificate")
    /\ AddConstruct("Certificate",
          Node("declared", "Certificate", [hostedZone |-> local.hostedZone],
               CertificateProps(fullDomainName), {}, Len(history)))
    /\ Bind("certificate", "Certificate")
    /\ UNCHANGED <<env, domainName, fullDomainName, ingress, scaling, healthCheck>>

\* const backendApp = new ecs_patterns.ApplicationLoadBalancedFargateService(this, id, {...})
NewFargateService ==
    /\ Run("backendApp")
    /\ AddConstruct("HulinkFargateService",
          Node("declared", "ApplicationLoadBalancedFargateService", ServiceRefs,
               ServiceProps(fullDomainName, local.databaseUrlSecret, local.googleCredentials),
               {"service", "targetGroup"}, Len(history)))
    /\ Bind("backendApp", "HulinkFargateService")
    /\ UNCHANGED <<env, domainName, fullDomainName, ingress, scaling, healthCheck>>

\* const scaling = backendApp.service.autoScaleTaskCount({minCapacity: 2, maxCapacity: 5})
AutoScaleTaskCount ==
    /\ Run("scaling")
    /\ scaling' = scaling \cup {ScalableTarget(local.backendApp)}
    /\ Bind("scaling", ScalableTarget(local.backendApp).id)
    /\ UNCHANGED <<env, tree, domainName, fullDomainName, ingress, healthCheck>>

\* backendApp.targetGroup.configureHealthCheck({...})
ConfigureHealthCheck ==
    /\ Run("configureHealthCheck")
    /\ healthCheck' = {h \in healthCheck : h.targetGroupOf # local.backendApp}
                        \cup {HealthCheck(local.backendApp)}
    /\ UNCHANGED <<env, tree, local, domainName, fullDomainName, ingress, scaling>>

\* scaling.scaleOnCpuUtilization('CpuScaling', {...})
ScaleOnCpuUtilization ==
    /\ Run("scaleOnCpuUtilization")
    /\ scaling' = {IF s.id = local.scaling
                   THEN [s EXCEPT !.policies = @ \cup {CpuScalingPolicy}]
                   ELSE s : s \in scaling}
    /\ UNCHANGED <<env, tree, local, domainName, fullDomainName, ingress, healthCheck>>

Next ==
    \/ LookupRepository
    \/ NewVpc
    \/ AddECREndpoint
    \/ AddECRDockerEndpoint
    \/ AddSecretsManagerEndpoint
    \/ NewCluster
    \/ NewDbSecurityGroup
    \/ NewAppSecurityGroup
    \/ AddIngressRule
    \/ NewDbCredentials
    \/ NewDatabase
    \/ LookupGoogleCredentials
    \/ NewDatabaseUrlSecret
    \/ ReadDomainName
    \/ LookupHostedZone
    \/ NewCertificate
    \/ NewFargateService
    \/ AutoScaleTaskCount
    \/ ConfigureHealthCheck
    \/ ScaleOnCpuUtilization

Spec == Init /\ [][Next]_vars

----------------------------------------------------------------------------
\* Views of the state used by the properties.

AbsentInputs == {n \in EnvNames : env[n] = JsUndefined}

AllPresent == AbsentInputs = {}

\* The resources the pass has declared (lookups of existing resources are not declarations).
DeclaredResources == {id \in DOMAIN tree : tree[id].kind = "declared"}

OfType(type) == {id \in DeclaredResources : tree[id].type = type}

Ran(label) == \E i \in DOMAIN history : history[i] = label

\* The values a property holds: itself, the entries of a map, the parts of a composed literal.
Leaves(v) ==
    IF v.kind = "map" THEN {v.entries[k] : k \in DOMAIN v.entries}
    ELSE {v}

Parts(v) == IF v.kind = "unsafePlainText" THEN {v.parts[i] : i \in DOMAIN v.parts} ELSE {v}

\* The value holds the content of a secret as a literal.
SecretDerived(v) == \E q \in Parts(v) : q.kind = "unsafeUnwrap"

\* The constructs a value names.
ValueRefs(v) ==
    UNION { IF q.kind \in {"secretRef", "unsafeUnwrap"} THEN {q.secret}
            ELSE IF q.kind = "attr" THEN {q.of}
            ELSE {} : q \in Parts(v) }

\* Every construct a declaration names, by argument or inside a property value.
AllRefs(id) ==
    {tree[id].refs[r] : r \in DOMAIN tree[id].refs}
      \cup UNION { UNION {ValueRefs(v) : v \in Leaves(tree[id].props[f])} : f \in DOMAIN tree[id].props }

DbIngress == {r \in ingress : r.group = "DBSecurityGroup"}

----------------------------------------------------------------------------
\* C1: with exactly one of the four environment inputs absent, the pass never
\* completes, and where it aborts no resource has been declared yet.
C1_AbortsBeforeAnyResource ==
    Cardinality(AbsentInputs) = 1 =>
        /\ pc # Done
        /\ pc = Aborted => DeclaredResources = {}

\* C2: the database security group has at most one ingress rule; once the rule is
\* wired it is exactly (peer = the application security group, TCP, 5432), and the
\* peer is a security group the pass declared.
C2_DbIngressOnlyFromApp ==
    /\ Cardinality(DbIngress) <= 1
    /\ \A r \in DbIngress :
          /\ r.peer = "AppSecurityGroup"
          /\ r.peer \in OfType("SecurityGroup")
          /\ r.group \in OfType("SecurityGroup")
          /\ r.protocol = "tcp"
          /\ r.port = 5432
    /\ Ran("addIngressRule") => DbIngress # {}

C2_Witness == pc = Done /\ Cardinality(DbIngress) = 1

\* C3: whenever the connection-string secret is in the graph, the database was
\* declared before it and carries its endpoint address and port attributes, and
\* the secret's url takes the endpoint from that database.
C3_ConnectionSecretAfterDatabase ==
    "DatabaseUrlSecret" \in DOMAIN tree =>
        /\ "Database" \in OfType("DatabaseInstance")
        /\ {"dbInstanceEndpointAddress", "dbInstanceEndpointPort"} \subseteq tree["Database"].attrs
        /\ tree["Database"].at < tree["DatabaseUrlSecret"].at
        /\ \A q \in Parts(tree["DatabaseUrlSecret"].props.secretObjectValue.entries.url) :
              q.kind = "attr" => q.of = "Database" /\ q.attr \in tree["Database"].attrs

C3_Witness == "DatabaseUrlSecret" \in DOMAIN tree /\ pc = "domainName"

C5_NoDanglingReferences ==
    pc = Done =>
        /\ \A id \in DOMAIN tree : \A r \in AllRefs(id) :
              r \in DOMAIN tree /\ tree[r].at < tree[id].at
        /\ \A r \in ingress : {r.group, r.peer} \subseteq DOMAIN tree
        /\ \A s \in scaling : s.service \in DOMAIN tree
        /\ \A h \in healthCheck : h.targetGroupOf \in DOMAIN tree

C5_Witness ==
    /\ pc = Done
    /\ "HulinkFargateService" \in DOMAIN tree
    /\ Cardinality(AllRefs("HulinkFargateService")) = 7

\* C6: the service's two secret-backed variables are references to secret-store
\* entries, its plain-text variables hold plain text, and the only value of the
\* graph that holds secret content as a literal is the url of DatabaseUrlSecret.
C6_SecretsByReference ==
    /\ "HulinkFargateService" \in DOMAIN tree =>
          LET p == tree["HulinkFargateService"].props IN
          /\ DOMAIN p.secrets.entries = {"DATABASE_URL", "GOOGLE_APPLICATION_CREDENTIALS_CONTENT"}
          /\ p.secrets.entries.DATABASE_URL = FromSecretsManager("DatabaseUrlSecret", "url")
          /\ p.secrets.entries.GOOGLE_APPLICATION_CREDENTIALS_CONTENT.kind = "secretRef"
          /\ p.secrets.entries.GOOGLE_APPLICATION_CREDENTIALS_CONTENT.secret = "GoogleCredentials"
          /\ \A k \in DOMAIN p.secrets.entries :
                /\ p.secrets.entries[k].secret \in DOMAIN tree
                /\ tree[p.secrets.entries[k].secret].type = "Secret"
          /\ \A k \in DOMAIN p.environment.entries : p.environment.entries[k].kind = "text"
    /\ \A id \in DOMAIN tree : \A f \in DOMAIN tree[id].props :
          LET v == tree[id].props[f] IN
          IF v.kind = "map"
          THEN \A k \in DOMAIN v.entries :
                  SecretDerived(v.entries[k]) =>
                      id = "DatabaseUrlSecret" /\ f = "secretObjectValue" /\ k = "url"
          ELSE ~SecretDerived(v)

C6_Witness ==
    /\ "HulinkFargateService" \in DOMAIN tree
    /\ "DatabaseUrlSecret" \in DOMAIN tree
    /\ SecretDerived(tree["DatabaseUrlSecret"].props.secretObjectValue.entries.url)

\* C7: when DOMAIN_NAME is d, the declared certificate requests exactly d, is
\* validated by DNS, and its validation zone is the hosted zone looked up for d.
C7_CertificateForDomain ==
    (env["DOMAIN_NAME"].type = "string" /\ "Certificate" \in DOMAIN tree) =>
        LET c == tree["Certificate"] IN
        /\ c.props.domainName = Text(env["DOMAIN_NAME"].s)
        /\ c.props.validation = Text("DNS")
        /\ c.refs.hostedZone \in DOMAIN tree
        /\ tree[c.refs.hostedZone].type = "HostedZone"
        /\ tree[c.refs.hostedZone].kind = "imported"
        /\ tree[c.refs.hostedZone].props.domainName = Text(env["DOMAIN_NAME"].s)

C7_Witness == env["DOMAIN_NAME"] = JsString("v2") /\ "Certificate" \in DOMAIN tree

\* C8: the scaling target of the service's task count has minimum 2 and maximum 5,
\* and the CPU policy (70 percent, both cooldowns 60 seconds) is attached to that
\* same target; the finished pass has exactly this one target with this one policy.
C8_ScalingBoundsAndPolicy ==
    /\ \A s \in scaling :
          /\ s.service = "HulinkFargateService"
          /\ s.service \in OfType("ApplicationLoadBalancedFargateService")
          /\ s.minCapacity = 2
          /\ s.maxCapacity = 5
          /\ \A q \in s.policies :
                /\ q.targetUtilizationPercent = 70
                /\ q.scaleInCooldown = 60
                /\ q.scaleOutCooldown = 60
    /\ Ran("scaling") => Cardinality(scaling) = 1
    /\ Ran("scaleOnCpuUtilization") =>
          \A s \in scaling : Cardinality(s.policies) = 1 /\ s.id = local.scaling

C8_Witness == pc = Done /\ \E s \in scaling : s.policies # {}

\* C9: the health check of the target group of the declared service has path
\* /v1/health, healthy threshold 2, unhealthy threshold 3 and interval 30 seconds.
C9_HealthCheck ==
    /\ \A h \in healthCheck :
          /\ h.targetGroupOf = "HulinkFargateService"
          /\ h.targetGroupOf \in OfType("ApplicationLoadBalancedFargateService")
          /\ h.path = "/v1/health"
          /\ h.healthyThresholdCount = 2
          /\ h.unhealthyThresholdCount = 3
          /\ h.interval = 30
    /\ Ran("configureHealthCheck") => Cardinality(healthCheck) = 1

C9_Witness == pc = Done /\ healthCheck # {}

\* The construction order as the specification lists it (steps 1 to 13).
SpecifiedOrder ==
    << "repository",                                                           \* 1
       "vpc", "ECREndpoint", "ECRDockerEndpoint", "SecretsManagerEndpoint",    \* 2
       "cluster",                                                              \* 3
       "dbSecurityGroup", "appSecurityGroup", "addIngressRule",                \* 4
       "dbCredentials",                                                        \* 5
       "database",                                                             \* 6
       "databaseUrlSecret",                                                    \* 7
       "googleCredentials",                                                    \* 8
       "domainName", "hostedZone", "certificate",                              \* 9
       "backendApp",                                                           \* 10
       "scaling",                                                              \* 11
       "configureHealthCheck",                                                 \* 12
       "scaleOnCpuUtilization" >>                                              \* 13

\* The same order with steps 7 and 8 exchanged.
AmendedOrder ==
    [i \in DOMAIN SpecifiedOrder |->
        IF SpecifiedOrder[i] = "databaseUrlSecret" THEN "googleCredentials"
        ELSE IF SpecifiedOrder[i] = "googleCredentials" THEN "databaseUrlSecret"
        ELSE SpecifiedOrder[i]]

FollowsOrder(order) ==
    /\ Len(history) <= Len(order)
    /\ \A i \in DOMAIN history : history[i] = order[i]
    /\ pc = Done => Len(history) = Len(order)

\* C10 as stated: the statements run in the specified order 1 to 13, the
\* connection-string secret (7) before the external secret lookup (8).
C10_SpecifiedOrder == FollowsOrder(SpecifiedOrder)

\* C10 amended: the statements run in the specified order except that the external
\* secret lookup (8) runs right after the database (6), before the connection-string
\* secret (7).
C10_AmendedOrder == FollowsOrder(AmendedOrder)

C10_Witness ==
    /\ pc = Done
    /\ \E i, j \in DOMAIN history :
          i < j /\ history[i] = "googleCredentials" /\ history[j] = "databaseUrlSecret"

====
